---- MODULE Spec2Model ----
(***************************************************************************)
(* Virtus WorkChain: the hash-chained ledger of src/blockchain.py.         *)
(*                                                                         *)
(* State: the chain of blocks, the two pending queues, the configuration   *)
(* attributes set by the constructor, and the position of a mine_block     *)
(* call (its candidate block included).  Python lists are objects: the     *)
(* candidate block is built from the very list object that                 *)
(* pending_transactions refers to, so transaction lists live in a heap and *)
(* are named by reference.                                                 *)
(*                                                                         *)
(* Beside the chain: get_balance, read over the sealed blocks; the stake   *)
(* ledger of src/consensus.py (ProofOfStake), an object of its own that    *)
(* the chain never touches; and the two certificate issuers,               *)
(* generate_task_certificate of src/blockchain.py and complete_task of     *)
(* src/task.py.  Each has its own specification over the same variables.   *)
(*                                                                         *)
(* SHA-256 is modelled as a collision-free function: a digest carries the  *)
(* canonical serialisation it was computed from, and its leading hex       *)
(* digits are computed from that serialisation (the nonce included).       *)
(***************************************************************************)
EXTENDS Integers, Sequences, FiniteSets, TLC

\* ------------------------------------------------------------ bounds

\* add_transaction calls the model follows
MaxTx == 2
\* mine_block calls the model follows
MaxAttempts == 2
\* add_task_certificate calls the model follows
MaxCerts == 3
\* largest value the clock reaches
MaxTime == 1
\* outside modifications of blocks the model follows
MaxTampers == 1
\* steps after which the model stops following a proof-of-work search
MaxNonce == 3
\* largest difficulty the constructor-time configuration ranges over
MaxDifficulty == 2
\* largest min_task_certificates_per_block the configuration ranges over
MaxMinCerts == 2
\* add_staker and remove_staker calls that return which the model follows
MaxStakeCalls == 3
\* largest min_stake the stake ledger is configured with
MaxMinStake == 2
\* largest value the clock reaches while certificates are issued
MaxIssueTime == 4
\* leading hex digits of a digest the model keeps: as many as a difficulty reads
HexDigits == MaxDifficulty

\* ------------------------------------------------------------ inputs

Miners == {"miner1", "miner2"}
\* the (sender, recipient, amount) triples add_transaction is called with
TxInputs == { <<"alice", "bob", 50>>, <<"bob", "alice", 30>> }
\* time.time() read when the last reading was t: the clock does not run backwards
ClockReads(t) == {t, t + 1} \cap (1..MaxTime)

\* the public keys add_staker and remove_staker are called with
Identities == {"A", "B"}
\* the amounts they are called with: below, at and above every min_stake, zero and negative
StakeAmounts == (0 - 1)..(MaxMinStake + 1)

\* ------------------------------------------------------------ program constants

\* self.mining_reward = 5
mining_reward == 5
\* base_reward = 2
base_reward == 2

VARIABLES
    chain,                          \* self.chain: sequence of blocks (chain[i+1] is Python's chain[i])
    heap,                           \* list objects holding transactions, by reference
    pending_transactions,           \* self.pending_transactions: a reference into heap
    pending_task_certificates,      \* self.pending_task_certificates
    difficulty,                     \* self.difficulty
    min_task_certificates_per_block,\* self.min_task_certificates_per_block
    pc,                             \* position of the mine_block call: idle, search, clear
    block,                          \* mine_block's local candidate block
    now,                            \* the last reading of the clock
    next_task,                      \* the driver's task counter: certificates submitted so far
    valid,                          \* what the last is_chain_valid call returned and reported
    raised,                         \* what the last mine_block call raised ("none": nothing)
    tampers,                        \* history: outside modifications of blocks so far
    entry,                          \* history: the queues as the running mine_block call found them
    attempts,                       \* history: miners of the mine_block calls since the last append
    balance,                        \* what the last get_balance call was asked and returned
    stakers,                        \* ProofOfStake.stakers: the dict, entries in insertion order
    min_stake,                      \* ProofOfStake.min_stake
    pos_result,                     \* what the last ProofOfStake call was and raised or returned
    deposits,                       \* history: per identity, the amounts of its add_staker calls that returned
    withdrawals,                    \* history: per identity, the amounts of its remove_staker calls that returned
    stake_calls,                    \* history: add_staker and remove_staker calls that returned
    issued                          \* what the last call of a certificate issuer raised or returned

\* the attributes of the chain object, the position of mine_block and their history
chainvars == <<chain, heap, pending_transactions, pending_task_certificates, difficulty,
               min_task_certificates_per_block, pc, block, now, next_task, valid, raised,
               tampers, entry, attempts>>

\* the ProofOfStake object and the certificate issuers: objects the chain never touches
offchain == <<stakers, min_stake, pos_result, deposits, withdrawals, stake_calls, issued>>

vars == <<chainvars, balance, offchain>>

\* the configuration attributes, fixed once the constructor has run
config == <<difficulty, min_task_certificates_per_block>>

\* ------------------------------------------------------------ hashing

\* the previous_hash "0" of the genesis block: a one-character string, hash of nothing
ZeroHash == [digits |-> <<0>>, pre |-> <<>>]

AddrCode(a) ==
    CASE a = "network" -> 1
      [] a = "alice" -> 2
      [] a = "bob" -> 3
      [] a = "miner1" -> 4
      [] a = "miner2" -> 5
      [] OTHER -> 6

TxCode(tx) == 7 * AddrCode(tx.from) + 3 * AddrCode(tx.to) + tx.amount

RECURSIVE TxsCode(_)
TxsCode(s) == IF s = <<>> THEN 0 ELSE (TxCode(Head(s)) + 3 * TxsCode(Tail(s))) % 997

RECURSIVE CertsCode(_)
CertsCode(s) == IF s = <<>> THEN 0 ELSE (Head(s).task_id + 2 * CertsCode(Tail(s))) % 997

RECURSIVE DigitsCode(_)
DigitsCode(s) == IF s = <<>> THEN 0 ELSE (Head(s) + 16 * DigitsCode(Tail(s))) % 997

\* json.dumps(..., sort_keys=True): the fields in key order, lists by content
Serialise(b, h) ==
    << b.index, b.nonce, b.previous_hash, b.task_certificates, b.timestamp, h[b.transactions] >>

\* the bytes fed to SHA-256, folded to a number (the nonce aside)
Raw(c) ==
    (11 * c[1] + DigitsCode(c[3].digits) + Len(c[3].pre) + CertsCode(c[4]) + 5 * c[5]
       + TxsCode(c[6])) % 997

\* hexdigest(): digit k of the digest of a string that folds to raw, under nonce
HexDigit(raw, nonce, k) == (((raw \div k) % 3) + 15 * nonce) % 16

\* hashlib.sha256(...).hexdigest() of serialisation c
Sha256Hex(c) ==
    LET raw == Raw(c)
    IN [digits |-> [k \in 1..HexDigits |-> HexDigit(raw, c[2], k)], pre |-> c]

\* Block.calculate_hash
calculate_hash(b, h) == Sha256Hex(Serialise(b, h))

\* faulty variant: the nonce of a new block is 1
BlockFromOne(index, transactions, task_certificates, previous_hash, ts, h) ==
    LET b0 == [index |-> index, timestamp |-> ts, transactions |-> transactions,
               task_certificates |-> task_certificates, previous_hash |-> previous_hash,
               nonce |-> 1, hash |-> ZeroHash]
    IN [b0 EXCEPT !.hash = calculate_hash(b0, h)]

\* Block.__init__, the clock read returning ts
Block(index, transactions, task_certificates, previous_hash, ts, h) ==
    LET b0 == [index |-> index, timestamp |-> ts, transactions |-> transactions,
               task_certificates |-> task_certificates, previous_hash |-> previous_hash,
               nonce |-> 0, hash |-> ZeroHash]
    IN [b0 EXCEPT !.hash = calculate_hash(b0, h)]

\* s[:n] and s[n:] of a Python sequence
Take(s, n) == SubSeq(s, 1, IF n < Len(s) THEN n ELSE Len(s))
Drop(s, n) == SubSeq(s, (IF n < Len(s) THEN n ELSE Len(s)) + 1, Len(s))

\* "0" * d
Zeros(d) == [k \in 1..d |-> 0]

\* faulty variant: one digit too few is compared
MeetsDifficultyShort(hash, d) == Take(hash.digits, d - 1) = Zeros(d - 1)

\* the loop test of the search, negated: block.hash[:difficulty] == "0" * difficulty
MeetsDifficulty(hash, d) == Take(hash.digits, d) = Zeros(d)

\* ------------------------------------------------------------ construction

NoBlock == [index |-> 0 - 1]
\* no get_balance call made yet
NoBalance == [address |-> "", value |-> 0]
\* no ProofOfStake call made yet
NoResult == [op |-> "none", public_key |-> "", amount |-> 0, error |-> "none",
             draw |-> 0, fallback |-> FALSE, returned |-> "", reward |-> [num |-> 0, den |-> 1]]
\* Python's None in the place of a certificate
None == [task_id |-> "", user_address |-> "", timestamp |-> 0, signature |-> <<>>]
\* no issuer called yet
NothingIssued == [by |-> "none", task_id |-> "", user_address |-> "", validity |-> FALSE,
                  raised |-> "none", certificate |-> None]
NoEntry == [txs |-> <<>>, certs |-> <<>>, miner |-> "", len |-> 0]

\* VirtusWorkChain.create_genesis_block
create_genesis_block(ts, h) == Block(0, 0, <<>>, ZeroHash, ts, h)

\* VirtusWorkChain.get_latest_block
get_latest_block == chain[Len(chain)]

\* VirtusWorkChain.__init__.  The constructor sets difficulty = 4 and
\* min_task_certificates_per_block = 5; both are plain attributes the properties
\* are stated for at any value, and a search at difficulty 4 is 16^4 hashes long,
\* so the model starts from every small value of the two.
InitChain ==
    /\ heap = (0 :> <<>>) @@ (1 :> <<>>)
    /\ now = 1
    /\ chain = << create_genesis_block(now, heap) >>
    /\ difficulty \in 0..MaxDifficulty
    /\ pending_transactions = 1
    /\ pending_task_certificates = <<>>
    /\ min_task_certificates_per_block \in 0..MaxMinCerts
    /\ pc = "idle"
    /\ block = NoBlock
    /\ next_task = 0
    /\ valid = [ok |-> TRUE, index |-> 0, rule |-> "none"]
    /\ raised = "none"
    /\ tampers = 0
    /\ entry = NoEntry
    /\ attempts = <<>>
    /\ balance = NoBalance

\* ProofOfStake.__init__, min_stake set to floor; no certificate issued yet
InitOffChain(floor) ==
    /\ stakers = <<>>
    /\ min_stake = floor
    /\ pos_result = NoResult
    /\ deposits = [k \in Identities |-> 0]
    /\ withdrawals = [k \in Identities |-> 0]
    /\ stake_calls = 0
    /\ issued = NothingIssued

\* the chain as constructed, beside a ProofOfStake object as constructed (min_stake = 10)
Init == InitChain /\ InitOffChain(10)

\* ------------------------------------------------------------ operations

Transaction(sender, recipient, amount) == [from |-> sender, to |-> recipient, amount |-> amount]

\* mine_block: the reward transaction
RewardTx(miner_address) == Transaction("network", miner_address, mining_reward)

\* faulty variant: the newest n certificates are taken
TakeNewest(q, n) == Drop(q, Len(q) - n)

\* faulty variant: one certificate too few is taken
TakeOneLess(q, n) == Take(q, n - 1)

\* faulty variant: the certificate after the ones taken leaves the queue too
RemainingSkipping(q, n) == Drop(q, n + 1)

\* mine_block: self.pending_task_certificates[:n] and [n:]
TakeCertificates(q, n) == Take(q, n)
RemainingCertificates(q, n) == Drop(q, n)

\* the transactions of every list object, for the bounds on the calls followed
RECURSIVE CountFrom(_, _)
CountFrom(s, network) ==
    IF s = <<>> THEN 0
    ELSE (IF (Head(s).from = "network") = network THEN 1 ELSE 0) + CountFrom(Tail(s), network)

RECURSIVE CountHeap(_, _)
CountHeap(refs, network) ==
    IF refs = {} THEN 0
    ELSE LET r == CHOOSE x \in refs : TRUE
         IN CountFrom(heap[r], network) + CountHeap(refs \ {r}, network)

Submitted == CountHeap(DOMAIN heap, FALSE)
Attempted == CountHeap(DOMAIN heap, TRUE)

\* faulty variant: the raise takes the reward transaction back out of the list
RaiseRollsBack(h0, h1) == h0

\* the list objects as the raise of mine_block leaves them, h0 before the reward
\* transaction was appended and h1 after: nothing is undone
RaiseLeaves(h0, h1) == h1

\* mine_block from its entry to the construction of the candidate block: the
\* reward transaction is appended to the pending list, then the certificate
\* check raises or the certificates are taken and the block is built over the
\* pending list object itself
MineBlockCall(miner_address, ts) ==
    /\ pc = "idle"
    /\ Attempted < MaxAttempts
    /\ LET heap1 == [heap EXCEPT ![pending_transactions] = Append(@, RewardTx(miner_address))]
       IN /\ attempts' = Append(attempts, miner_address)
          /\ IF Len(pending_task_certificates) < min_task_certificates_per_block
             THEN /\ raised' = "ValueError"
                  /\ heap' = RaiseLeaves(heap, heap1)
                  /\ UNCHANGED <<pending_task_certificates, pc, block, entry, now>>
             ELSE /\ raised' = "none"
                  /\ heap' = heap1
                  /\ pending_task_certificates' =
                        RemainingCertificates(pending_task_certificates,
                                              min_task_certificates_per_block)
                  /\ block' = Block(Len(chain), pending_transactions,
                                    TakeCertificates(pending_task_certificates,
                                                     min_task_certificates_per_block),
                                    get_latest_block.hash, ts, heap1)
                  /\ now' = ts
                  /\ entry' = [txs |-> heap[pending_transactions],
                               certs |-> pending_task_certificates,
                               miner |-> miner_address, len |-> Len(chain)]
                  /\ pc' = "search"
    /\ UNCHANGED <<chain, pending_transactions, config, balance, offchain, next_task, valid, tampers>>

\* faulty variant: the nonce is raised and the hash left as it was
RehashStale(b, h) == b

\* one turn of the proof-of-work loop: block.nonce += 1; block.hash = block.calculate_hash()
Rehash(b, h) == [b EXCEPT !.hash = calculate_hash(b, h)]

SearchStep ==
    /\ pc = "search"
    /\ ~MeetsDifficulty(block.hash, difficulty)
    /\ block.nonce < MaxNonce
    /\ block' = Rehash([block EXCEPT !.nonce = @ + 1], heap)
    /\ UNCHANGED <<chain, heap, pending_transactions, pending_task_certificates, config, balance, offchain,
                   pc, now, next_task, valid, raised, tampers, entry, attempts>>

\* faulty variant: the block takes the place of the latest mined block
AppendedReplacing(c, b) == IF Len(c) = 1 THEN Append(c, b) ELSE [c EXCEPT ![Len(c)] = b]

\* self.chain.append(block)
AppendedChain(c, b) == Append(c, b)

\* the loop test fails and the block is appended to the chain
AppendBlock ==
    /\ pc = "search"
    /\ MeetsDifficulty(block.hash, difficulty)
    /\ chain' = AppendedChain(chain, block)
    /\ pc' = "clear"
    /\ UNCHANGED <<heap, pending_transactions, pending_task_certificates, config, balance, offchain,
                   block, now, next_task, valid, raised, tampers, entry, attempts>>

\* the fresh list object of self.pending_transactions = []
NewList == Cardinality(DOMAIN heap)

\* faulty variant: mine_block returns without the assignment of a fresh list
ClearPendingKeeps ==
    /\ pc = "clear"
    /\ pc' = "idle"
    /\ block' = NoBlock
    /\ entry' = NoEntry
    /\ attempts' = <<>>
    /\ UNCHANGED <<chain, heap, pending_transactions, pending_task_certificates, config, balance, offchain, now,
                   next_task, valid, raised, tampers>>

\* self.pending_transactions = [] and the return of mine_block
ClearPending ==
    /\ pc = "clear"
    /\ pending_transactions' = NewList
    /\ heap' = heap @@ (NewList :> <<>>)
    /\ pc' = "idle"
    /\ block' = NoBlock
    /\ entry' = NoEntry
    /\ attempts' = <<>>
    /\ UNCHANGED <<chain, pending_task_certificates, config, balance, offchain, now, next_task, valid, raised, tampers>>

\* faulty variant: the transaction is put at the head of the list
add_transaction_at_head(sender, recipient, amount) ==
    /\ Submitted < MaxTx
    /\ heap' = [heap EXCEPT ![pending_transactions] =
                   << Transaction(sender, recipient, amount) >> \o @]
    /\ UNCHANGED <<chain, pending_transactions, pending_task_certificates, config, balance,
                   offchain, pc, block, now, next_task, valid, raised, tampers, entry, attempts>>

\* VirtusWorkChain.add_transaction
add_transaction(sender, recipient, amount) ==
    /\ Submitted < MaxTx
    /\ heap' = [heap EXCEPT ![pending_transactions] =
                   Append(@, Transaction(sender, recipient, amount))]
    /\ UNCHANGED <<chain, pending_transactions, pending_task_certificates, config, balance, offchain,
                   pc, block, now, next_task, valid, raised, tampers, entry, attempts>>

\* VirtusWorkChain.add_task_certificate
add_task_certificate(certificate) ==
    /\ pc = "idle"
    /\ pending_task_certificates' = Append(pending_task_certificates, certificate)
    /\ UNCHANGED <<chain, heap, pending_transactions, config, balance, offchain,
                   pc, block, now, valid, raised, tampers, entry, attempts>>

\* faulty variant: the scan without the test of the link to the previous block
RECURSIVE ScanFromNoLink(_, _, _, _)
ScanFromNoLink(c, h, m, i) ==
    IF i >= Len(c) THEN [ok |-> TRUE, index |-> 0, rule |-> "none"]
    ELSE IF c[i + 1].hash # calculate_hash(c[i + 1], h)
    THEN [ok |-> FALSE, index |-> i, rule |-> "hash"]
    ELSE IF Len(c[i + 1].task_certificates) < m
    THEN [ok |-> FALSE, index |-> i, rule |-> "certs"]
    ELSE ScanFromNoLink(c, h, m, i + 1)

\* VirtusWorkChain.is_chain_valid: the scan from Python index i (chain[i] is c[i+1]),
\* returning at the first rule that fails
RECURSIVE ScanFrom(_, _, _, _)
ScanFrom(c, h, m, i) ==
    IF i >= Len(c) THEN [ok |-> TRUE, index |-> 0, rule |-> "none"]
    ELSE LET current_block == c[i + 1]
             previous_block == c[i]
         IN IF current_block.hash # calculate_hash(current_block, h)
            THEN [ok |-> FALSE, index |-> i, rule |-> "hash"]
            ELSE IF current_block.previous_hash # previous_block.hash
            THEN [ok |-> FALSE, index |-> i, rule |-> "link"]
            ELSE IF Len(current_block.task_certificates) < m
            THEN [ok |-> FALSE, index |-> i, rule |-> "certs"]
            ELSE ScanFrom(c, h, m, i + 1)

is_chain_valid(c, h, m) == ScanFrom(c, h, m, 1)

\* a call of is_chain_valid
ValidateCall ==
    /\ valid' = is_chain_valid(chain, heap, min_task_certificates_per_block)
    /\ UNCHANGED <<chain, heap, pending_transactions, pending_task_certificates, config, balance, offchain,
                   pc, block, now, next_task, raised, tampers, entry, attempts>>

\* the calls of the single thread, one at a time
AddTransaction == pc = "idle" /\ \E t \in TxInputs : add_transaction(t[1], t[2], t[3])

\* the driver's certificate of task next_task
AddTaskCertificate ==
    /\ next_task < MaxCerts
    /\ next_task' = next_task + 1
    /\ add_task_certificate([task_id |-> next_task])

MineBlock == \E m \in Miners, ts \in ClockReads(now) : MineBlockCall(m, ts)

Validate == pc = "idle" /\ ValidateCall

Next ==
    \/ AddTransaction
    \/ AddTaskCertificate
    \/ MineBlock
    \/ SearchStep
    \/ AppendBlock
    \/ ClearPending
    \/ Validate

Spec == Init /\ [][Next]_vars

\* ------------------------------------------------------------ outside modification

\* the value an outside writer puts into a field of block b in place of value v
Forged(field, v) ==
    CASE field = "index" -> v + 1
      [] field = "timestamp" -> v + 1
      [] field = "nonce" -> v + 1
      [] field = "transactions" ->
            IF v = <<>> THEN << Transaction("network", "mallory", 1000) >>
            ELSE [v EXCEPT ![1].amount = @ + 1]
      [] field = "task_certificates" ->
            IF v = <<>> THEN << [task_id |-> 99] >> ELSE Tail(v)
      [] OTHER -> IF v = ZeroHash THEN [digits |-> <<15>>, pre |-> <<>>] ELSE ZeroHash

Fields == {"index", "timestamp", "transactions", "task_certificates", "previous_hash", "nonce"}

\* an assignment from outside to one attribute of chain[i-1] (Block's attributes
\* are public); reseal: the writer also stores the recomputed hash
TamperField(i, field, reseal) ==
    /\ pc = "idle"
    /\ tampers < MaxTampers
    /\ tampers' = tampers + 1
    /\ LET b == chain[i]
           h1 == IF field = "transactions"
                 THEN [heap EXCEPT ![b.transactions] = Forged(field, @)]
                 ELSE heap
           b1 == IF field = "transactions" THEN b
                 ELSE [b EXCEPT ![field] = Forged(field, @)]
           b2 == IF reseal THEN [b1 EXCEPT !.hash = calculate_hash(b1, h1)] ELSE b1
       IN /\ heap' = h1
          /\ chain' = [chain EXCEPT ![i] = b2]
    /\ UNCHANGED <<pending_transactions, pending_task_certificates, config, balance, offchain, pc, block, now,
                   next_task, valid, raised, entry, attempts>>

Tamper == \E i \in 1..Len(chain), field \in Fields : TamperField(i, field, FALSE)

TamperAndReseal == \E i \in 1..Len(chain), field \in Fields : TamperField(i, field, TRUE)

\* the single miner of the runs that are tampered with, the clock standing still
MineBlockAlone == MineBlockCall("miner1", now)

NextTamper ==
    \/ AddTaskCertificate
    \/ MineBlockAlone
    \/ SearchStep
    \/ AppendBlock
    \/ ClearPending
    \/ Validate
    \/ Tamper
    \/ TamperAndReseal

SpecTamper == Init /\ [][NextTamper]_vars

\* ------------------------------------------------------------ the search, run to its end

\* one miner; a mine_block call that was entered goes on running: the interpreter
\* takes the next turn of the loop, the append and the return whenever they are
\* the next statement
NextSearch ==
    \/ AddTransaction
    \/ AddTaskCertificate
    \/ MineBlockAlone
    \/ SearchStep
    \/ AppendBlock
    \/ ClearPending

SpecSearch ==
    /\ Init
    /\ [][NextSearch]_vars
    /\ WF_vars(SearchStep)
    /\ WF_vars(AppendBlock)
    /\ WF_vars(ClearPending)

\* ------------------------------------------------------------ a second thread

\* add_transaction called by another thread while mine_block runs
AddTransactionDuringMining ==
    pc # "idle" /\ \E t \in TxInputs : add_transaction(t[1], t[2], t[3])

\* is_chain_valid called by another thread while mine_block runs
ValidateDuringMining == pc # "idle" /\ ValidateCall

NextThreads ==
    \/ Next
    \/ AddTransactionDuringMining
    \/ ValidateDuringMining

SpecThreads == Init /\ [][NextThreads]_vars

\* ------------------------------------------------------------ balances

\* faulty variant: the test of the recipient is the else branch of the test of the sender
RECURSIVE FoldTransactionsElse(_, _, _)
FoldTransactionsElse(txs, address, bal) ==
    IF txs = <<>> THEN bal
    ELSE LET tx == Head(txs)
         IN FoldTransactionsElse(Tail(txs), address,
                IF tx.from = address THEN bal - tx.amount
                ELSE IF tx.to = address THEN bal + tx.amount ELSE bal)

\* the inner loop of get_balance over the transactions of one block, from balance
\* bal: the two tests, one after the other
RECURSIVE FoldTransactions(_, _, _)
FoldTransactions(txs, address, bal) ==
    IF txs = <<>> THEN bal
    ELSE LET tx == Head(txs)
             bal1 == IF tx.from = address THEN bal - tx.amount ELSE bal
             bal2 == IF tx.to = address THEN bal1 + tx.amount ELSE bal1
         IN FoldTransactions(Tail(txs), address, bal2)

\* for block in self.chain, from Python index i on
RECURSIVE FoldBlocks(_, _, _, _, _)
FoldBlocks(c, h, address, i, bal) ==
    IF i >= Len(c) THEN bal
    ELSE FoldBlocks(c, h, address, i + 1, FoldTransactions(h[c[i + 1].transactions], address, bal))

\* faulty variant: the pending transactions are counted too
get_balance_with_pending(c, h, address) ==
    FoldTransactions(h[pending_transactions], address, FoldBlocks(c, h, address, 0, 0))

\* VirtusWorkChain.get_balance
get_balance(c, h, address) == FoldBlocks(c, h, address, 0, 0)

\* the addresses get_balance is asked for
Addresses == {"alice", "bob", "carol", "network", "miner1"}

\* a call of get_balance
GetBalance ==
    /\ pc = "idle"
    /\ \E address \in Addresses :
          balance' = [address |-> address, value |-> get_balance(chain, heap, address)]
    /\ UNCHANGED <<chainvars, offchain>>

\* the transfers of the runs whose balances are read: the driver's first two and a
\* transfer of an address to itself
Transfers == { <<"alice", "bob", 50>>, <<"bob", "carol", 30>>, <<"carol", "carol", 20>> }

AddTransfer == pc = "idle" /\ \E t \in Transfers : add_transaction(t[1], t[2], t[3])

\* a chain that asks for no certificates, so that every mine_block call seals
InitBalance ==
    /\ Init
    /\ min_task_certificates_per_block = 0
    /\ difficulty <= 1

NextBalance ==
    \/ AddTransfer
    \/ MineBlockAlone
    \/ SearchStep
    \/ AppendBlock
    \/ ClearPending
    \/ GetBalance

SpecBalance == InitBalance /\ [][NextBalance]_vars

\* ------------------------------------------------------------ stake ledger

\* self.stakers is a dict: a sequence of entries in insertion order, one per key
Keys(s) == { s[i].public_key : i \in 1..Len(s) }
Position(s, public_key) == CHOOSE i \in 1..Len(s) : s[i].public_key = public_key
\* self.stakers[public_key]
StakeOf(s, public_key) == s[Position(s, public_key)].stake
\* del self.stakers[public_key]
Deleted(s, public_key) == SelectSeq(s, LAMBDA e : e.public_key # public_key)

\* faulty variant: the stake of a known key is set to the amount
DepositedOver(s, public_key, amount) ==
    IF public_key \in Keys(s)
    THEN [s EXCEPT ![Position(s, public_key)].stake = amount]
    ELSE Append(s, [public_key |-> public_key, stake |-> amount])

\* add_staker past its test: self.stakers[public_key] += amount, or a new entry
Deposited(s, public_key, amount) ==
    IF public_key \in Keys(s)
    THEN [s EXCEPT ![Position(s, public_key)].stake = @ + amount]
    ELSE Append(s, [public_key |-> public_key, stake |-> amount])

\* faulty variant: the entry stays in the dict at stake zero
WithdrawnKeeping(s, public_key, amount) ==
    [s EXCEPT ![Position(s, public_key)].stake = @ - amount]

\* remove_staker past its test: self.stakers[public_key] -= amount, the entry
\* deleted when that leaves zero
Withdrawn(s, public_key, amount) ==
    LET s1 == [s EXCEPT ![Position(s, public_key)].stake = @ - amount]
    IN IF StakeOf(s1, public_key) = 0 THEN Deleted(s1, public_key) ELSE s1

\* what a ProofOfStake call raised or returned
Result(op, public_key, amount, error) ==
    [NoResult EXCEPT !.op = op, !.public_key = public_key, !.amount = amount, !.error = error]

\* ProofOfStake.add_staker
add_staker(public_key, amount) ==
    IF amount < min_stake
    THEN /\ pos_result' = Result("add_staker", public_key, amount, "Stake must be at least")
         /\ UNCHANGED <<stakers, deposits, withdrawals, stake_calls>>
    ELSE /\ stake_calls < MaxStakeCalls
         /\ stakers' = Deposited(stakers, public_key, amount)
         /\ pos_result' = Result("add_staker", public_key, amount, "none")
         /\ deposits' = [deposits EXCEPT ![public_key] = @ + amount]
         /\ stake_calls' = stake_calls + 1
         /\ UNCHANGED withdrawals

\* ProofOfStake.remove_staker
remove_staker(public_key, amount) ==
    IF public_key \notin Keys(stakers) \/ StakeOf(stakers, public_key) < amount
    THEN /\ pos_result' = Result("remove_staker", public_key, amount, "Insufficient stake")
         /\ UNCHANGED <<stakers, deposits, withdrawals, stake_calls>>
    ELSE /\ stake_calls < MaxStakeCalls
         /\ stakers' = Withdrawn(stakers, public_key, amount)
         /\ pos_result' = Result("remove_staker", public_key, amount, "none")
         /\ withdrawals' = [withdrawals EXCEPT ![public_key] = @ + amount]
         /\ stake_calls' = stake_calls + 1
         /\ UNCHANGED deposits

\* sum(self.stakers.values())
RECURSIVE TotalStake(_)
TotalStake(s) == IF s = <<>> THEN 0 ELSE Head(s).stake + TotalStake(Tail(s))

\* random.uniform(0, total_stake): a real of [0, total_stake], kept in halves
Draws(total_stake) == 0..(2 * total_stake)

\* faulty variant: the walk stops where the cumulative stake exceeds the draw
RECURSIVE WalkStrict(_, _, _, _)
WalkStrict(s, i, current, selection) ==
    IF i > Len(s) THEN [returned |-> s[Len(s)].public_key, fallback |-> TRUE]
    ELSE IF 2 * (current + s[i].stake) > selection
    THEN [returned |-> s[i].public_key, fallback |-> FALSE]
    ELSE WalkStrict(s, i + 1, current + s[i].stake, selection)

\* the loop of select_validator from entry i on, selection in halves; past the last
\* entry the fallback returns the last key
RECURSIVE Walk(_, _, _, _)
Walk(s, i, current, selection) ==
    IF i > Len(s) THEN [returned |-> s[Len(s)].public_key, fallback |-> TRUE]
    ELSE IF 2 * (current + s[i].stake) >= selection
    THEN [returned |-> s[i].public_key, fallback |-> FALSE]
    ELSE Walk(s, i + 1, current + s[i].stake, selection)

\* ProofOfStake.select_validator
select_validator ==
    /\ IF stakers = <<>>
       THEN pos_result' = Result("select_validator", "", 0, "No stakers available")
       ELSE \E selection \in Draws(TotalStake(stakers)) :
               LET w == Walk(stakers, 1, 0, selection)
               IN pos_result' = [Result("select_validator", "", 0, "none") EXCEPT
                                    !.draw = selection, !.fallback = w.fallback,
                                    !.returned = w.returned]
    /\ UNCHANGED <<stakers, deposits, withdrawals, stake_calls>>

\* faulty variant: the stake is read by indexing the dict
calculate_reward_indexing(s, validator) ==
    IF validator \in Keys(s)
    THEN [error |-> "none", num |-> base_reward * StakeOf(s, validator), den |-> 100]
    ELSE [error |-> "KeyError", num |-> 0, den |-> 1]

\* ProofOfStake.calculate_reward: base_reward * (stake / 100), as a fraction
calculate_reward(s, validator) ==
    LET stake == IF validator \in Keys(s) THEN StakeOf(s, validator) ELSE 0
    IN [error |-> "none", num |-> base_reward * stake, den |-> 100]

\* the calls on the ProofOfStake object
AddStaker ==
    /\ \E public_key \in Identities, amount \in StakeAmounts : add_staker(public_key, amount)
    /\ UNCHANGED <<chainvars, balance, min_stake, issued>>

RemoveStaker ==
    /\ \E public_key \in Identities, amount \in StakeAmounts : remove_staker(public_key, amount)
    /\ UNCHANGED <<chainvars, balance, min_stake, issued>>

SelectValidator ==
    /\ select_validator
    /\ UNCHANGED <<chainvars, balance, min_stake, issued>>

CalculateReward ==
    /\ \E validator \in Identities :
          LET r == calculate_reward(stakers, validator)
          IN pos_result' = [Result("calculate_reward", validator, 0, r.error) EXCEPT
                               !.reward = [num |-> r.num, den |-> r.den]]
    /\ UNCHANGED <<chainvars, balance, stakers, min_stake, deposits, withdrawals, stake_calls,
                   issued>>

\* a ProofOfStake object beside a chain nobody calls.  The constructor sets
\* min_stake = 10, a plain attribute; the model starts from every small value of it.
InitStake ==
    /\ InitChain
    /\ difficulty = 0
    /\ min_task_certificates_per_block = 0
    /\ \E floor \in 0..MaxMinStake : InitOffChain(floor)

NextStake ==
    \/ AddStaker
    \/ RemoveStaker
    \/ SelectValidator
    \/ CalculateReward

SpecStake == InitStake /\ [][NextStake]_vars

\* ------------------------------------------------------------ certificate issuers

\* the task identifiers and users of the driver
Tasks == {"task_0", "task_1", "task_2"}
Users == {"Alice", "Bob"}
\* time.time() read while certificates are issued, the last reading being t
IssuerReads(t) == {t, t + 1} \cap (1..MaxIssueTime)

\* the characters of a number put into an f-string
DigitChars == <<"0", "1", "2", "3", "4", "5", "6", "7", "8", "9">>
RECURSIVE Decimal(_)
Decimal(n) == IF n < 10 THEN << DigitChars[n + 1] >> ELSE Decimal(n \div 10) \o << DigitChars[(n % 10) + 1] >>

\* f"{task_id}{user_address}{timestamp}", as the sequence of its pieces
SignedString(task_id, user_address, timestamp) == <<task_id, user_address>> \o Decimal(timestamp)

\* hashlib.sha256(string.encode()).hexdigest(): collision-free, the digest carries its input
Signature(string) == [digits |-> <<>>, pre |-> string]

\* the certificate dict of blockchain.py, the clock read returning t1 for the
\* "timestamp" entry and then t2 inside the signature's f-string
TaskCertificate(task_id, user_address, t1, t2) ==
    [task_id |-> task_id, user_address |-> user_address, timestamp |-> t1,
     signature |-> Signature(SignedString(task_id, user_address, t2))]

\* generate_task_certificate of blockchain.py; validity: what validate_task returned
generate_task_certificate(task_id, user_address, validity) ==
    IF validity
    THEN \E t1 \in IssuerReads(now) : \E t2 \in IssuerReads(t1) :
            /\ issued' = [by |-> "generate_task_certificate", task_id |-> task_id,
                          user_address |-> user_address, validity |-> validity,
                          raised |-> "none",
                          certificate |-> TaskCertificate(task_id, user_address, t1, t2)]
            /\ now' = t2
    ELSE /\ issued' = [by |-> "generate_task_certificate", task_id |-> task_id,
                       user_address |-> user_address, validity |-> validity,
                       raised |-> "none", certificate |-> None]
         /\ now' = now

\* complete_task of task.py; generate_certificate of utils.py reads time.time() in a
\* module that imports hashlib and json only, and raises NameError at that line
complete_task(task_id, user_address, validity) ==
    /\ issued' = [by |-> "complete_task", task_id |-> task_id,
                  user_address |-> user_address, validity |-> validity,
                  raised |-> IF validity THEN "NameError" ELSE "none", certificate |-> None]
    /\ now' = now

\* what the issuers leave alone
besideIssuers == <<chain, heap, pending_transactions, pending_task_certificates, config, pc,
                   block, next_task, valid, raised, tampers, entry, attempts, balance,
                   stakers, min_stake, pos_result, deposits, withdrawals, stake_calls>>

GenerateTaskCertificate ==
    /\ \E task_id \in Tasks, user_address \in Users, validity \in BOOLEAN :
          generate_task_certificate(task_id, user_address, validity)
    /\ UNCHANGED besideIssuers

CompleteTask ==
    /\ \E task_id \in Tasks, user_address \in Users, validity \in BOOLEAN :
          complete_task(task_id, user_address, validity)
    /\ UNCHANGED besideIssuers

\* the issuers beside a chain nobody calls
InitIssuer ==
    /\ Init
    /\ difficulty = 0
    /\ min_task_certificates_per_block = 0

NextIssuer ==
    \/ GenerateTaskCertificate
    \/ CompleteTask

SpecIssuer == InitIssuer /\ [][NextIssuer]_vars

\* ------------------------------------------------------------ properties

\* the transactions a block holds
Txs(b) == heap[b.transactions]

\* the transactions a block holds once the step is taken
TxsAfter(b) == heap'[b.transactions]

\* the pending-transaction queue
Pending == heap[pending_transactions]

\* a step that enters mine_block, one in which it raises, one that appends its block
MineCalled == pc = "idle" /\ Len(attempts') = Len(attempts) + 1
MineRaised == MineCalled /\ pc' = "idle"
MineAppended == pc = "search" /\ pc' = "clear"
MineReturned == pc = "clear" /\ pc' = "idle"

\* C1: after any sequence of add_transaction, add_task_certificate and mine_block
\* calls on a fresh, untampered chain, is_chain_valid() is true (and every call of
\* it made so far returned true), the genesis-only chain included.
C1_UntamperedChainValid ==
    /\ is_chain_valid(chain, heap, min_task_certificates_per_block).ok
    /\ valid.ok

\* a block mined after a failed attempt, with a search that took steps
C1_Witness ==
    /\ pc = "idle"
    /\ Len(chain) = 2
    /\ Len(Txs(chain[2])) = 3
    /\ chain[2].nonce > 0

\* C2: mine_block raises exactly when fewer than min_task_certificates_per_block
\* certificates are pending; otherwise the block it appends holds the first
\* min_task_certificates_per_block pending certificates in submission order and
\* the others stay queued in their order.
C2_CertificateAdmission ==
    /\ [][MineCalled =>
            /\ (raised' = "ValueError")
                   <=> (Len(pending_task_certificates) < min_task_certificates_per_block)
            /\ (pc' = "search")
                   <=> ~(Len(pending_task_certificates) < min_task_certificates_per_block)]_vars
    /\ [][MineAppended =>
            LET new == chain'[Len(chain')]
            IN /\ Len(chain') = Len(chain) + 1
               /\ Len(new.task_certificates) = min_task_certificates_per_block
               /\ new.task_certificates \o pending_task_certificates' = entry.certs]_vars

\* a block holding two certificates is appended while a third stays queued
C2_Witness ==
    /\ pc = "clear"
    /\ min_task_certificates_per_block = 2
    /\ Len(chain[Len(chain)].task_certificates) = 2
    /\ Len(pending_task_certificates) = 1

\* the reward transactions among s, in order
Rewards(s) == SelectSeq(s, LAMBDA t : t.from = "network")

\* C3: a mine_block call that raises leaves the chain and the pending certificates
\* as they were and its reward transaction at the tail of the pending
\* transactions; so the block appended after k failed attempts holds k+1 reward
\* transactions, one per attempt since the last append, each paying that
\* attempt's miner.
C3_RewardPerAttempt ==
    /\ [][MineRaised =>
            /\ chain' = chain
            /\ pending_task_certificates' = pending_task_certificates
            /\ pending_transactions' = pending_transactions
            /\ Pending' = Append(Pending, RewardTx(attempts'[Len(attempts')]))]_vars
    /\ [][MineAppended =>
            LET new == chain'[Len(chain')]
            IN /\ Len(Rewards(TxsAfter(new))) = Len(attempts)
               /\ \A i \in 1..Len(attempts) :
                      Rewards(TxsAfter(new))[i] = RewardTx(attempts[i])]_vars

\* a block appended after a failed attempt by another miner
C3_Witness ==
    /\ pc = "clear"
    /\ Len(attempts) = 2
    /\ attempts[1] # attempts[2]
    /\ Len(Rewards(Txs(chain[Len(chain)]))) = 2

\* C6: the hash of every block mine_block appended starts with `difficulty`
\* characters '0', whatever the difficulty.
C6_MinedMeetDifficulty ==
    \A i \in 2..Len(chain) :
        \A k \in 1..difficulty :
            /\ k <= Len(chain[i].hash.digits)
            /\ chain[i].hash.digits[k] = 0

\* a block found at a nonce above 0 under difficulty 2
C6_Witness ==
    /\ difficulty = 2
    /\ Len(chain) >= 2
    /\ chain[Len(chain)].nonce > 0

\* C7: single-threaded, every block of the chain has hash == calculate_hash()
\* over its current fields, and so has the candidate block once constructed and
\* after every increment-and-rehash step.
C7_HashMatchesFields ==
    /\ \A i \in 1..Len(chain) : chain[i].hash = calculate_hash(chain[i], heap)
    /\ pc \in {"search", "clear"} => block.hash = calculate_hash(block, heap)

\* a candidate after a step of the search
C7_Witness ==
    /\ pc = "search"
    /\ block.nonce > 0
    /\ Len(chain) >= 2

\* C8: the chain is append-only: only the append of a successful mine_block
\* changes it, adding one block at the end; the blocks in it keep their fields
\* and transactions; block i has index i and the hash of block i-1 as
\* previous_hash; position 0 holds the genesis block.
C8_AppendOnly ==
    /\ [][\/ chain' = chain
          \/ /\ MineAppended
             /\ Len(chain') = Len(chain) + 1
             /\ SubSeq(chain', 1, Len(chain)) = chain]_vars
    /\ [][\A i \in 1..Len(chain) :
             heap'[chain[i].transactions] = heap[chain[i].transactions]]_vars
    /\ [][MineRaised => Len(chain') = Len(chain)]_vars
    /\ [](/\ chain[1].index = 0
          /\ Txs(chain[1]) = <<>>
          /\ chain[1].task_certificates = <<>>
          /\ chain[1].previous_hash = ZeroHash
          /\ \A i \in 2..Len(chain) :
                /\ chain[i].index = i - 1
                /\ chain[i].previous_hash = chain[i - 1].hash)

\* two blocks mined on the genesis block
C8_Witness ==
    /\ pc = "idle"
    /\ Len(chain) = 3

\* C9: a successful mine_block puts into its block the transactions pending when
\* it was called, in their order, then its reward transaction, and leaves the
\* pending queue empty; transactions submitted after it returned do not reach
\* that block.
C9_BlockTakesAllPending ==
    /\ [][MineAppended =>
            TxsAfter(chain'[Len(chain')]) = Append(entry.txs, RewardTx(entry.miner))]_vars
    /\ [][MineReturned =>
            /\ Pending' = <<>>
            /\ TxsAfter(chain[Len(chain)]) = Txs(chain[Len(chain)])]_vars
    /\ [][pc = "idle" =>
            \A i \in 1..Len(chain) : TxsAfter(chain[i]) = Txs(chain[i])]_vars

\* a block holding a submitted transaction before its reward, and a transaction
\* submitted after the call returned
C9_Witness ==
    /\ pc = "idle"
    /\ Len(chain) = 2
    /\ Len(Txs(chain[2])) = 2
    /\ Txs(chain[2])[1].from # "network"
    /\ Len(Pending) = 1
    /\ Pending[1].from # "network"

\* what is_chain_valid returns for the chain as it is, and after the step
Validity == is_chain_valid(chain, heap, min_task_certificates_per_block)
ValidityAfter == is_chain_valid(chain', heap', min_task_certificates_per_block')

\* a step in which a field of chain[i-1] is changed from outside and its hash is
\* left as it was, in a chain that validated
Modified(i) ==
    /\ tampers' = tampers + 1
    /\ Validity.ok
    /\ Serialise(chain'[i], heap') # Serialise(chain[i], heap)
    /\ chain'[i].hash = chain[i].hash

\* C4: changing one field of any block of the chain, the genesis block included,
\* without recomputing its hash makes is_chain_valid() return false and report
\* that block's index.
C4_TamperDetectedAtEveryIndex ==
    [][\A i \in 1..Len(chain) :
          Modified(i) => ~ValidityAfter.ok /\ ValidityAfter.index = i - 1]_vars

\* the part of C4 the scan delivers: the same for every block after the genesis block
C4_TamperDetectedAfterGenesis ==
    [][\A i \in 2..Len(chain) :
          Modified(i) => ~ValidityAfter.ok /\ ValidityAfter.index = i - 1]_vars

\* the three rules of is_chain_valid for chain[i-1], i >= 2
RuleHash(i) == chain[i].hash = calculate_hash(chain[i], heap)
RuleLink(i) == chain[i].previous_hash = chain[i - 1].hash
RuleCerts(i) == Len(chain[i].task_certificates) >= min_task_certificates_per_block
Rules(i) == RuleHash(i) /\ RuleLink(i) /\ RuleCerts(i)

\* C5: is_chain_valid() is true exactly when every block after the genesis block
\* meets the three rules; a broken link at block i, with every earlier block in
\* order, makes it false and reported at index i; the call changes no block.
C5_ValidIffAllRules ==
    /\ [](/\ Validity.ok <=> \A i \in 2..Len(chain) : Rules(i)
          /\ \A i \in 2..Len(chain) :
                (~RuleLink(i) /\ \A j \in 2..(i - 1) : Rules(j))
                    => ~Validity.ok /\ Validity.index = i - 1)
    /\ [][valid' # valid =>
            /\ valid' = Validity
            /\ chain' = chain
            /\ heap' = heap]_vars

\* a call that reported the broken link of the second mined block, the hashes in order
C5_Witness ==
    /\ Len(chain) = 3
    /\ RuleHash(2) /\ RuleHash(3)
    /\ Rules(2)
    /\ ~RuleLink(3)
    /\ valid = [ok |-> FALSE, index |-> 2, rule |-> "link"]

\* C10: with add_transaction calls interleaving with a mine_block call, every
\* block seen in the chain has hash == calculate_hash() over its fields and meets
\* the difficulty, and is_chain_valid() run by another thread never returns false.
C10_ReadersSeeSealedBlocks ==
    /\ \A i \in 1..Len(chain) : chain[i].hash = calculate_hash(chain[i], heap)
    /\ \A i \in 2..Len(chain) : MeetsDifficulty(chain[i].hash, difficulty)
    /\ Validity.ok
    /\ valid.ok

\* the transactions of the blocks of the chain, in chain order
RECURSIVE SealedFrom(_)
SealedFrom(i) == IF i > Len(chain) THEN <<>> ELSE Txs(chain[i]) \o SealedFrom(i + 1)
Sealed == SealedFrom(1)

\* the sum of the amounts of the transactions of s
RECURSIVE Amounts(_)
Amounts(s) == IF s = <<>> THEN 0 ELSE Head(s).amount + Amounts(Tail(s))

Received(address) == Amounts(SelectSeq(Sealed, LAMBDA t : t.to = address))
Sent(address) == Amounts(SelectSeq(Sealed, LAMBDA t : t.from = address))

\* the transactions of block i that are no reward
Transferred(i) == SelectSeq(Txs(chain[i]), LAMBDA t : t.from # "network")

\* a step that is a call of add_transaction
TransactionAdded == pc = "idle" /\ pc' = "idle" /\ heap' # heap /\ attempts' = attempts

\* C11: get_balance(address) is the amounts the sealed blocks pay to the address
\* minus the amounts they take from it; a pending transaction adds nothing to it;
\* the call changes no state; alice->bob:50 and bob->carol:30 mined in two blocks
\* give alice -50, bob 20 and carol 30.
C11_BalanceOfSealed ==
    /\ [](pc = "idle" =>
             /\ \A a \in Addresses :
                    get_balance(chain, heap, a) = Received(a) - Sent(a)
             /\ (/\ Len(chain) = 3
                 /\ Transferred(2) = << Transaction("alice", "bob", 50) >>
                 /\ Transferred(3) = << Transaction("bob", "carol", 30) >>)
                    => /\ get_balance(chain, heap, "alice") = 0 - 50
                       /\ get_balance(chain, heap, "bob") = 20
                       /\ get_balance(chain, heap, "carol") = 30)
    /\ [][TransactionAdded =>
            \A a \in Addresses : get_balance(chain', heap', a) = get_balance(chain, heap, a)]_vars
    /\ [][balance' # balance =>
            /\ balance'.value = Received(balance'.address) - Sent(balance'.address)
            /\ UNCHANGED <<chainvars, offchain>>]_vars

\* bob's balance read after the two transfers were mined in two blocks
C11_Witness ==
    /\ Len(chain) = 3
    /\ Transferred(2) = << Transaction("alice", "bob", 50) >>
    /\ Transferred(3) = << Transaction("bob", "carol", 30) >>
    /\ balance = [address |-> "bob", value |-> 20]

\* the stake the ledger holds for an identity, none when it is no key
Staked(s, public_key) == IF public_key \in Keys(s) THEN StakeOf(s, public_key) ELSE 0

\* every key of the dict has one entry
OneEntryPerKey == Cardinality(Keys(stakers)) = Len(stakers)

\* C12: whatever min_stake >= 0 is configured and whatever integer amounts
\* add_staker and remove_staker are called with, every entry of the stake ledger
\* holds a stake strictly greater than 0.
C12_EveryEntryPositive ==
    /\ OneEntryPerKey
    /\ \A i \in 1..Len(stakers) : stakers[i].stake > 0

\* C12, for a min_stake of at least 1: every entry of the stake ledger holds a
\* stake strictly greater than 0; for min_stake = 0 no stake is negative.
C12_EveryEntryPositiveAboveZeroFloor ==
    /\ OneEntryPerKey
    /\ \A i \in 1..Len(stakers) : stakers[i].stake >= 0
    /\ min_stake >= 1 => \A i \in 1..Len(stakers) : stakers[i].stake > 0

\* under a min_stake of 1, an identity withdrew all it had staked and is no key, another is
C12_Witness ==
    /\ min_stake = 1
    /\ deposits["A"] > 0
    /\ withdrawals["A"] = deposits["A"]
    /\ Keys(stakers) = {"B"}

\* a step that is a call of remove_staker
RemoveCalled == pos_result'.op = "remove_staker"

\* C13: remove_staker(identity, amount) raises "Insufficient stake" when the
\* identity is no key or its stake is below amount, and the ledger stays as it
\* was; otherwise the identity's stake drops by amount and no other entry changes,
\* and an identity whose stake drops to exactly zero is removed, after which
\* calculate_reward(identity) returns 0 and raises nothing.
C13_RemoveStaker ==
    [][RemoveCalled =>
         LET public_key == pos_result'.public_key
             amount == pos_result'.amount
         IN IF public_key \notin Keys(stakers) \/ Staked(stakers, public_key) < amount
            THEN /\ pos_result'.error = "Insufficient stake"
                 /\ stakers' = stakers
            ELSE /\ pos_result'.error = "none"
                 /\ Staked(stakers', public_key) = Staked(stakers, public_key) - amount
                 /\ Deleted(stakers', public_key) = Deleted(stakers, public_key)
                 /\ (public_key \in Keys(stakers')) <=> Staked(stakers, public_key) # amount
                 /\ Staked(stakers, public_key) = amount =>
                       calculate_reward(stakers', public_key) =
                           [error |-> "none", num |-> 0, den |-> 100]]_vars

\* the reward of an identity that withdrew exactly its stake was asked for and is 0
C13_Witness ==
    /\ pos_result.op = "calculate_reward"
    /\ pos_result.public_key = "A"
    /\ pos_result.error = "none"
    /\ pos_result.reward.num = 0
    /\ deposits["A"] > 0
    /\ withdrawals["A"] = deposits["A"]
    /\ "A" \notin Keys(stakers)
    /\ "B" \in Keys(stakers)

\* a step that is a call of add_staker
AddCalled == pos_result'.op = "add_staker"

\* the sum of f over the identities of ks
RECURSIVE SumOver(_, _)
SumOver(f, ks) ==
    IF ks = {} THEN 0
    ELSE LET k == CHOOSE x \in ks : TRUE IN f[k] + SumOver(f, ks \ {k})

\* C14: add_staker with amount < min_stake raises and leaves the ledger as it was,
\* and otherwise adds amount to the identity's stake or creates its entry; after any
\* calls the stake of every identity is its deposits minus its withdrawals, and the
\* total stake is the deposits minus the withdrawals of all.
C14_StakeConserved ==
    /\ [][AddCalled =>
            LET public_key == pos_result'.public_key
                amount == pos_result'.amount
            IN IF amount < min_stake
               THEN /\ pos_result'.error = "Stake must be at least"
                    /\ stakers' = stakers
               ELSE /\ pos_result'.error = "none"
                    /\ public_key \in Keys(stakers')
                    /\ StakeOf(stakers', public_key) = Staked(stakers, public_key) + amount
                    /\ Deleted(stakers', public_key) = Deleted(stakers, public_key)]_vars
    /\ [](/\ \A k \in Identities : Staked(stakers, k) = deposits[k] - withdrawals[k]
          /\ TotalStake(stakers) = SumOver(deposits, Identities) - SumOver(withdrawals, Identities))

\* an identity that deposited twice and withdrew a part, beside another
C14_Witness ==
    /\ deposits["A"] > withdrawals["A"]
    /\ withdrawals["A"] > 0
    /\ StakeOf(stakers, "A") < deposits["A"]
    /\ pos_result.op = "add_staker"
    /\ pos_result.public_key = "A"
    /\ pos_result.error = "none"
    /\ stake_calls = 3

\* the first entry, in insertion order, at which the cumulative stake reaches the
\* draw (in halves); 0 when there is none
FirstReaching(s, selection) ==
    LET reaching == { i \in 1..Len(s) : 2 * TotalStake(SubSeq(s, 1, i)) >= selection }
    IN IF reaching = {} THEN 0 ELSE CHOOSE i \in reaching : \A j \in reaching : i <= j

\* a step that is a call of select_validator
SelectCalled == pos_result'.op = "select_validator"

\* C15: select_validator raises "No stakers available" on an empty ledger and
\* changes no state; otherwise, for every draw of [0, total_stake], it returns the
\* first identity in insertion order whose cumulative stake is >= the draw, a key
\* of the ledger, and never by the fallback to the last entry.
C15_SelectValidator ==
    [][SelectCalled =>
         /\ UNCHANGED <<stakers, min_stake, deposits, withdrawals, stake_calls, chainvars>>
         /\ IF stakers = <<>>
            THEN pos_result'.error = "No stakers available"
            ELSE /\ pos_result'.error = "none"
                 /\ pos_result'.draw \in Draws(TotalStake(stakers))
                 /\ FirstReaching(stakers, pos_result'.draw) # 0
                 /\ pos_result'.returned =
                        stakers[FirstReaching(stakers, pos_result'.draw)].public_key
                 /\ pos_result'.returned \in Keys(stakers)
                 /\ ~pos_result'.fallback]_vars

\* the draw was the whole stake of two entries and the second entry was returned
C15_Witness ==
    /\ pos_result.op = "select_validator"
    /\ Len(stakers) = 2
    /\ pos_result.draw = 2 * TotalStake(stakers)
    /\ pos_result.returned = stakers[2].public_key
    /\ stakers[2].stake > 0

\* C16: every certificate an issuer returned carries the signature of its task_id,
\* its user_address and the timestamp stored in it, however the clock moved
\* between two reads; an issuer whose validity check was false returned none.
C16_SignatureOverStoredTimestamp ==
    /\ issued.certificate # None =>
          issued.certificate.signature =
              Signature(SignedString(issued.certificate.task_id,
                                     issued.certificate.user_address,
                                     issued.certificate.timestamp))
    /\ ~issued.validity => issued.certificate = None

\* the part of C16 the issuers deliver: a certificate is returned only when the
\* validity check was true, and it carries the task_id and user_address asked for
C16_NoneWhenInvalid ==
    /\ ~issued.validity => issued.certificate = None /\ issued.raised = "none"
    /\ issued.certificate # None =>
          /\ issued.certificate.task_id = issued.task_id
          /\ issued.certificate.user_address = issued.user_address

\* a step that is a call of add_task_certificate
CertificateAdded == next_task' = next_task + 1

\* C17: add_transaction puts exactly one entry at the tail of the pending
\* transactions, whatever the sender, recipient and amount and whatever the
\* sender's balance (there is no balance check), and leaves the chain and the
\* pending certificates as they were; add_task_certificate puts exactly one entry
\* at the tail of the pending certificates and leaves the chain and the pending
\* transactions as they were.
C17_SubmissionsAppendOnly ==
    /\ [][TransactionAdded =>
            /\ Len(Pending') = Len(Pending) + 1
            /\ SubSeq(Pending', 1, Len(Pending)) = Pending
            /\ \E t \in TxInputs : Pending'[Len(Pending')] = Transaction(t[1], t[2], t[3])
            /\ pending_transactions' = pending_transactions
            /\ chain' = chain
            /\ \A i \in 1..Len(chain) : TxsAfter(chain[i]) = Txs(chain[i])
            /\ pending_task_certificates' = pending_task_certificates]_vars
    /\ [][CertificateAdded =>
            /\ pending_task_certificates' =
                  Append(pending_task_certificates, [task_id |-> next_task])
            /\ chain' = chain
            /\ heap' = heap
            /\ pending_transactions' = pending_transactions]_vars
    /\ [](pc = "idle" /\ Submitted < MaxTx =>
             \A t \in TxInputs : ENABLED add_transaction(t[1], t[2], t[3]))

\* a transfer from alice is queued while the sealed blocks leave her balance below zero
C17_Witness ==
    /\ pc = "idle"
    /\ Len(chain) = 2
    /\ get_balance(chain, heap, "alice") < 0
    /\ Len(Pending) = 1
    /\ Pending[1].from = "alice"
    /\ Len(pending_task_certificates) >= 1

\* the certificates of the blocks of the chain, in chain order
RECURSIVE SealedCertificatesFrom(_)
SealedCertificatesFrom(i) ==
    IF i > Len(chain) THEN <<>> ELSE chain[i].task_certificates \o SealedCertificatesFrom(i + 1)

\* the certificates the candidate block of a running search holds
CandidateCertificates == IF pc = "search" THEN block.task_certificates ELSE <<>>

\* every certificate the chain object holds: sealed, in the candidate, pending
AllCertificates ==
    SealedCertificatesFrom(1) \o CandidateCertificates \o pending_task_certificates

\* every transaction the chain object holds: sealed, then pending.  While the
\* search runs the candidate's list is the pending list; once the block is
\* appended and until the call returns, the pending list is the new block's list.
AllTransactions == Sealed \o (IF pc = "clear" THEN <<>> ELSE Pending)
AllTransactionsAfter ==
    LET c == chain'
        RECURSIVE From(_)
        From(i) == IF i > Len(c) THEN <<>> ELSE TxsAfter(c[i]) \o From(i + 1)
    IN From(1) \o (IF pc' = "clear" THEN <<>> ELSE heap'[pending_transactions'])

\* C19: single-threaded, the certificates of blocks 1..N in chain order followed by
\* the pending certificates (between the take and the append of a mine_block
\* call: with the candidate's certificates between them) are the certificates
\* passed to add_task_certificate, each once, in submission order; the blocks'
\* transactions followed by the pending transactions only ever grow at the tail,
\* by the transaction of an add_transaction call or the reward of a mine_block
\* call, so none is lost, doubled or moved.
C19_NothingLostOrReordered ==
    /\ [](AllCertificates = [i \in 1..next_task |-> [task_id |-> i - 1]])
    /\ [](pc # "search" =>
             SealedCertificatesFrom(1) \o pending_task_certificates
                 = [i \in 1..next_task |-> [task_id |-> i - 1]])
    /\ [][\/ AllTransactionsAfter = AllTransactions
          \/ /\ TransactionAdded
             /\ \E t \in TxInputs :
                   AllTransactionsAfter = Append(AllTransactions, Transaction(t[1], t[2], t[3]))
          \/ /\ MineCalled
             /\ AllTransactionsAfter
                   = Append(AllTransactions, RewardTx(attempts'[Len(attempts')]))]_vars
    /\ [][~TransactionAdded /\ ~MineCalled => AllTransactionsAfter = AllTransactions]_vars

\* two blocks hold the first two certificates and a transfer each, the third is pending
C19_Witness ==
    /\ pc = "idle"
    /\ Len(chain) = 3
    /\ chain[2].task_certificates = << [task_id |-> 0] >>
    /\ chain[3].task_certificates = << [task_id |-> 1] >>
    /\ pending_task_certificates = << [task_id |-> 2] >>
    /\ Len(Transferred(2)) = 1
    /\ Len(Transferred(3)) = 1

\* the addresses that occur in sealed transactions, "network" among them
SealedAddresses ==
    { Sealed[i].from : i \in 1..Len(Sealed) } \cup { Sealed[i].to : i \in 1..Len(Sealed) }

\* the sum of get_balance over the addresses of as
RECURSIVE SumOfBalances(_)
SumOfBalances(as) ==
    IF as = {} THEN 0
    ELSE LET a == CHOOSE x \in as : TRUE
         IN get_balance(chain, heap, a) + SumOfBalances(as \ {a})

\* the sealed transactions whose sender is not their recipient
BetweenTwo == SelectSeq(Sealed, LAMBDA t : t.from # t.to)

\* C20: the balances of all addresses that occur in sealed transactions, the
\* "network" sender of the rewards among them, sum to 0; get_balance("network")
\* is minus mining_reward times the number of sealed reward transactions (nobody
\* else sends to or from "network"); a transaction from an address to itself
\* changes no balance.
C20_BalancesZeroSum ==
    /\ SumOfBalances(SealedAddresses) = 0
    /\ get_balance(chain, heap, "network") = 0 - mining_reward * Len(Rewards(Sealed))
    /\ \A a \in Addresses \cup SealedAddresses :
          get_balance(chain, heap, a) = Received(a) - Sent(a)
             /\ Received(a) - Sent(a)
                  = Amounts(SelectSeq(BetweenTwo, LAMBDA t : t.to = a))
                      - Amounts(SelectSeq(BetweenTwo, LAMBDA t : t.from = a))

\* carol's balance read with a transfer to her, a transfer of hers to herself and
\* two rewards sealed
C20_Witness ==
    /\ Len(chain) = 3
    /\ Len(Rewards(Sealed)) = 2
    /\ Len(Sealed) = 4
    /\ \E i \in 1..Len(Sealed) : Sealed[i] = Transaction("carol", "carol", 20)
    /\ balance = [address |-> "carol", value |-> 30]

\* the hash block b has at nonce n
HashAt(b, n) == calculate_hash([b EXCEPT !.nonce = n], heap)

\* the nonces at which block b meets the difficulty; the digits of the digests
\* come round after 16 nonces
MeetingNonces(b) == { n \in 0..15 : MeetsDifficulty(HashAt(b, n), difficulty) }

\* C18: the search starts at nonce 0 and raises the nonce by exactly 1 per step,
\* so the block appended carries the smallest nonce n >= 0 whose hash meets the
\* difficulty; at difficulty 0 it takes no step and the block is appended with
\* nonce 0; no block is appended when no nonce meets the difficulty, and when one
\* does, the search of a mine_block call that had enough certificates ends and
\* its block is appended.
C18_SearchFindsLeastNonce ==
    /\ [][MineCalled /\ pc' = "search" => block'.nonce = 0]_vars
    /\ [][pc = "search" /\ pc' = "search" =>
            /\ block'.nonce = block.nonce + 1
            /\ [block' EXCEPT !.nonce = 0, !.hash = ZeroHash]
                  = [block EXCEPT !.nonce = 0, !.hash = ZeroHash]
            /\ UNCHANGED <<chain, heap, pending_transactions, pending_task_certificates>>]_vars
    /\ [][MineAppended =>
            LET new == chain'[Len(chain')]
            IN /\ new = block
               /\ new.nonce \in MeetingNonces(new)
               /\ \A n \in 0..(new.nonce - 1) :
                     ~MeetsDifficulty(HashAt(new, n), difficulty)
               /\ difficulty = 0 => new.nonce = 0]_vars
    /\ [](pc = "search" /\ difficulty = 0 => block.nonce = 0)
    /\ [][pc = "search" /\ MeetingNonces(block) = {} => pc' = "search"]_vars
    /\ (pc = "search" /\ MeetingNonces(block) # {})
          ~> (pc = "clear" /\ chain[Len(chain)] = block)

\* a block appended under difficulty 2 after two steps of the search
C18_Witness ==
    /\ pc = "clear"
    /\ difficulty = 2
    /\ chain[Len(chain)].nonce = 2
    /\ chain[Len(chain)] = block

====
